---- MODULE Spec2Model ----
(***************************************************************************)
(* Model of src/script.js: the cocktail browser's four user-triggered      *)
(* flows (search, random, category browse, detail view), the bootstrap     *)
(* category listing, and the renderers that write the two display regions. *)
(*                                                                         *)
(* Strings are sequences of tokens.  A token is one character where the    *)
(* character matters (" ", "/", "%", ...) and a chunk of unreserved        *)
(* characters otherwise ("Coffee").  JavaScript null/undefined is the      *)
(* reserved one-token sequence Null, so that every field has one shape.    *)
(* A value that is "an object or null" is a sequence of length 0 or 1.     *)
(*                                                                         *)
(* The page holds every element the script looks up (#search-input,        *)
(* #search-button, #random-button, #cocktail-display, #categories-display),*)
(* so the null guards of lines 47, 88, 98, 137-150 and 187 always pass.    *)
(* Names and identifiers of the remote records hold no character that      *)
(* HTML treats specially, so a data-* attribute reads back as written.     *)
(***************************************************************************)
EXTENDS Integers, Sequences, FiniteSets, TLC

VARIABLES
    searchInput,   \* value of the #search-input field
    detail,        \* markup in #cocktail-display (cocktailDisplayDiv.innerHTML)
    categories,    \* markup in #categories-display
    flows,         \* every async flow started so far, in start order; flows[1] is the bootstrap
    requests,      \* log of the URLs handed to fetch(), in order
    unhandled,     \* ids of flows whose promise rejected (unhandled rejection)
    step,          \* label of the handler or continuation that ran last
    call           \* pending direct renderer call (renderer specification only)

vars == <<searchInput, detail, categories, flows, requests, unhandled, step, call>>

----------------------------------------------------------------------------
(* Bounds *)

MaxFlows == 2
MaxSlots == 16

----------------------------------------------------------------------------
(* Strings *)

Null == <<"\\null">>

Whitespace == {" ", "\t"}

Falsy(s) == s = Null \/ s = <<>>

Truthy(s) == ~Falsy(s)

RECURSIVE trimStart(_)
trimStart(s) ==
    IF s = <<>> THEN <<>>
    ELSE IF Head(s) \in Whitespace THEN trimStart(Tail(s))
    ELSE s

RECURSIVE trimEnd(_)
trimEnd(s) ==
    IF s = <<>> THEN <<>>
    ELSE IF s[Len(s)] \in Whitespace THEN trimEnd(SubSeq(s, 1, Len(s) - 1))
    ELSE s

trimOmitted(s) == s

trim(s) == trimEnd(trimStart(s))

\* encodeURIComponent escapes every character outside A-Z a-z 0-9 - _ . ! ~ * ' ( )
EscapedChars == {" ", "\t", "/", "%", "?", "&", "="}

Escape(c) ==
    CASE c = " "  -> <<"%", "2", "0">>
      [] c = "\t" -> <<"%", "0", "9">>
      [] c = "/"  -> <<"%", "2", "F">>
      [] c = "%"  -> <<"%", "2", "5">>
      [] c = "?"  -> <<"%", "3", "F">>
      [] c = "&"  -> <<"%", "2", "6">>
      [] c = "="  -> <<"%", "3", "D">>

RECURSIVE encodeURIComponent(_)
encodeURIComponent(s) ==
    IF s = <<>> THEN <<>>
    ELSE (IF Head(s) \in EscapedChars THEN Escape(Head(s)) ELSE <<Head(s)>>)
         \o encodeURIComponent(Tail(s))

cocktailApiBaseUrl == <<"https://www.thecocktaildb.com/api/json/v1/1/">>

----------------------------------------------------------------------------
(* Markup written to a display region *)

Markup(node, class, text, list, cards) ==
    [node |-> node, class |-> class, text |-> text, list |-> list, cards |-> cards]

\* content of a region before the script writes it
InitialMarkup == Markup("initial", "", <<>>, <<>>, <<>>)

Paragraph(class, text) == Markup("p", class, text, <<>>, <<>>)

----------------------------------------------------------------------------
(* Records of the remote API *)

IngredientSlots == 15

\* a JSON value that is null or an array
NullArray == [null |-> TRUE, items |-> <<>>]

Array(items) == [null |-> FALSE, items |-> items]

Cocktail(id, name, category, ingredients, measures) ==
    [idDrink |-> id, strDrink |-> name, strDrinkThumb |-> <<"thumb/">> \o id,
     strCategory |-> category, strAlcoholic |-> <<"Alcoholic">>,
     strGlass |-> Null, strInstructions |-> IF category = Null THEN Null ELSE <<"Shake.">>,
     strIngredient |-> ingredients, strMeasure |-> measures]

Margarita ==
    Cocktail(<<"11007">>, <<"Margarita">>, <<"Ordinary", " ", "Drink">>,
             << <<"Tequila">>, <<"Triple", " ", "sec">>, <<"Lime", " ", "juice">>, Null >>,
             << <<"1", " ", "oz", " ">>, <<"1/2", " ", "oz", " ">>, Null, Null >>)

Mojito ==
    Cocktail(<<"11000">>, <<"Mojito">>, Null,
             << <<"Light", " ", "rum">>, <<" ", "Mint">>, <<>>, <<"Soda">> >>,
             << <<"2", " ", "oz">>, <<>>, <<>>, <<"top">> >>)

Summary(c) == [idDrink |-> c.idDrink, strDrink |-> c.strDrink, strDrinkThumb |-> c.strDrinkThumb]

Shot == [idDrink |-> <<"17222">>, strDrink |-> <<"A1">>, strDrinkThumb |-> <<"thumb/17222">>]

Category(name) == [strCategory |-> name]

\* a property the record does not have reads as undefined
ingredientAt(drink, i) ==
    IF i \in DOMAIN drink.strIngredient THEN drink.strIngredient[i] ELSE Null

measureAt(drink, i) ==
    IF i \in DOMAIN drink.strMeasure THEN drink.strMeasure[i] ELSE Null

\* `${value}` in a template literal
Interpolate(s) == IF s = Null THEN <<"null">> ELSE s

----------------------------------------------------------------------------
(* Renderers *)

listItem(measure, ingredient) ==
    (IF Truthy(measure) THEN trim(measure) \o <<" ">> ELSE <<>>) \o trim(ingredient)

\* skips a missing ingredient instead of stopping at it
RECURSIVE ingredientsHtmlSkipping(_, _)
ingredientsHtmlSkipping(drink, i) ==
    IF i > IngredientSlots THEN <<>>
    ELSE IF Falsy(ingredientAt(drink, i)) THEN ingredientsHtmlSkipping(drink, i + 1)
    ELSE <<listItem(measureAt(drink, i), ingredientAt(drink, i))>>
         \o ingredientsHtmlSkipping(drink, i + 1)

RECURSIVE ingredientsHtml(_, _)
ingredientsHtml(drink, i) ==
    IF i > IngredientSlots THEN <<>>
    ELSE IF Falsy(ingredientAt(drink, i)) THEN <<>>
    ELSE <<listItem(measureAt(drink, i), ingredientAt(drink, i))>>
         \o ingredientsHtml(drink, i + 1)

NotFoundMarkup == Paragraph("error-text", <<"No se encontró ningún cóctel con ese nombre.">>)

\* renders an empty detail view for null instead of the message
displayCocktailWithoutNullCheck(drink) ==
    IF drink = <<>> THEN Markup("detail", "", <<"undefined">>, <<>>, <<>>)
    ELSE Markup("detail", "", Interpolate(drink[1].strDrink),
                ingredientsHtml(drink[1], 1), <<>>)

displayCocktail(drink) ==
    IF drink = <<>> THEN NotFoundMarkup
    ELSE LET d == drink[1] IN
         Markup("detail", "",
                Interpolate(d.strDrink)
                \o <<"img:">> \o Interpolate(d.strDrinkThumb)
                \o (IF Truthy(d.strCategory) THEN <<"Categoría:">> \o d.strCategory ELSE <<>>)
                \o (IF Truthy(d.strAlcoholic) THEN <<"Tipo:">> \o d.strAlcoholic ELSE <<>>)
                \o (IF Truthy(d.strGlass) THEN <<"Vaso recomendado:">> \o d.strGlass ELSE <<>>)
                \o <<"Instrucciones:">>
                \o (IF Truthy(d.strInstructions) THEN d.strInstructions
                    ELSE <<"Instrucciones no disponibles.">>),
                ingredientsHtml(d, 1),
                <<>>)

displayError(message) == Paragraph("error-text", message)

displayLoading(message) == Paragraph("loading-text", message)

\* querySelectorAll(...).forEach(card => card.addEventListener('click', ...))
addClickListeners(cards) ==
    [k \in DOMAIN cards |-> [cards[k] EXCEPT !.listeners = @ + 1]]

NoCategoriesMarkup == Paragraph("error-text", <<"No se encontraron categorías.">>)

categoryCards(items) ==
    [k \in 1..Len(items) |->
        [tag |-> Interpolate(items[k].strCategory),
         label |-> Interpolate(items[k].strCategory),
         listeners |-> 0]]

\* tests only for null, not for an empty array
displayCategoriesNullOnly(cats) ==
    IF cats.null THEN NoCategoriesMarkup
    ELSE Markup("cards", "category-card", <<>>, <<>>,
                addClickListeners(categoryCards(cats.items)))

displayCategories(cats) ==
    IF cats.null \/ Len(cats.items) = 0 THEN NoCategoriesMarkup
    ELSE Markup("cards", "category-card", <<>>, <<>>,
                addClickListeners(categoryCards(cats.items)))

\* renders the cards in reverse response order
cocktailItemsReversed(items) ==
    [k \in 1..Len(items) |->
        [tag |-> Interpolate(items[Len(items) + 1 - k].idDrink),
         label |-> Interpolate(items[Len(items) + 1 - k].strDrink),
         listeners |-> 0]]

\* tags every card with the identifier of the first summary
cocktailItemsFirstId(items) ==
    [k \in 1..Len(items) |->
        [tag |-> Interpolate(items[1].idDrink),
         label |-> Interpolate(items[k].strDrink),
         listeners |-> 0]]

cocktailItems(items) ==
    [k \in 1..Len(items) |->
        [tag |-> Interpolate(items[k].idDrink),
         label |-> Interpolate(items[k].strDrink),
         listeners |-> 0]]

----------------------------------------------------------------------------
(* What the network may answer *)

Outcome(kind, status, drinks) == [kind |-> kind, status |-> status, drinks |-> drinks]

NoOutcome == Outcome("none", "", NullArray)

\* fetch() rejects: no response at all
NetworkFailure == Outcome("network", "", NullArray)

\* a response whose status is outside 200..299
HttpFailure(status) == Outcome("http", status, NullArray)

\* a 200 response whose body is not JSON
ParseFailure == Outcome("parse", "200", NullArray)

Ok(drinks) == Outcome("ok", "200", drinks)

ErrorStatuses == {"500"}

FetchFailures == {NetworkFailure} \cup {HttpFailure(s) : s \in ErrorStatuses}

CocktailBodies ==
    {ParseFailure, Ok(NullArray), Ok(Array(<<>>)),
     Ok(Array(<<Margarita>>)), Ok(Array(<<Mojito, Margarita>>))}

FilterBodies ==
    {ParseFailure, Ok(NullArray), Ok(Array(<<>>)),
     Ok(Array(<<Shot>>)), Ok(Array(<<Summary(Margarita), Summary(Mojito), Shot>>))}

CategoryBodies ==
    {ParseFailure, Ok(NullArray), Ok(Array(<<>>)),
     Ok(Array(<<Category(<<"Shot">>)>>)),
     Ok(Array(<<Category(<<"Coffee", " ", "/", " ", "Tea">>), Category(<<"%", "2", "0">>)>>))}

Bodies(flow) ==
    CASE flow = "category" -> FilterBodies
      [] flow = "init"     -> CategoryBodies
      [] OTHER             -> CocktailBodies

IsFailure(o) == o.kind \in {"network", "http", "parse"}

\* messages of the errors the browser itself raises
FetchRejectMessage == <<"Failed to fetch">>

JsonRejectMessage == <<"Unexpected token in JSON">>

----------------------------------------------------------------------------
(* API client *)

\* await fetch(url); if (!response.ok) throw ...; await response.json()
\* The error thrown inside the try block, as a sequence of length 0 or 1.
awaitResponse(o) ==
    CASE o.kind = "network" -> <<FetchRejectMessage>>
      [] o.kind = "http"    -> <<<<"HTTP error! Status: ", o.status>>>>
      [] o.kind = "parse"   -> <<JsonRejectMessage>>
      [] OTHER              -> <<>>

Returned(value) == [threw |-> FALSE, message |-> <<>>, value |-> value, display |-> <<>>]

Threw(message) == [threw |-> TRUE, message |-> message, value |-> <<>>, display |-> <<>>]

\* takes the last element instead of the first
indexLast(items) == IF Len(items) = 0 THEN <<>> ELSE <<items[Len(items)]>>

\* array[0]: undefined when the array is empty
indexZero(items) == IF Len(items) = 0 THEN <<>> ELSE <<items[1]>>

fetchCocktailDataSwallowing(o) ==
    IF awaitResponse(o) # <<>> \/ o.drinks.null THEN Returned(<<>>)
    ELSE Returned(indexZero(o.drinks.items))

fetchCocktailData(o) ==
    LET error == awaitResponse(o) IN
    IF error # <<>> THEN Threw(error[1])
    ELSE IF o.drinks.null THEN Returned(<<>>)
    ELSE Returned(indexZero(o.drinks.items))

fetchCocktailCategoriesRethrowing(o) ==
    LET error == awaitResponse(o) IN
    IF error # <<>> THEN Threw(error[1])
    ELSE IF o.drinks.null THEN Returned(NullArray)
    ELSE Returned(o.drinks)

fetchCocktailCategories(o) ==
    LET error == awaitResponse(o) IN
    IF error # <<>>
    THEN [threw |-> FALSE, message |-> <<>>, value |-> NullArray,
          display |-> <<displayError(<<"Error al cargar las categorías: ">> \o error[1])>>]
    ELSE IF o.drinks.null THEN Returned(NullArray)
    ELSE Returned(o.drinks)

----------------------------------------------------------------------------
(* The part of each flow that runs once its request has settled *)

\* what a continuation does: the markup it writes to each region (a sequence
\* of length 0 or 1), whether the API client call threw to the flow, and
\* whether the flow's own promise rejected
Effect(detailWrite, categoriesWrite, threw, rejected) ==
    [detail |-> detailWrite, categories |-> categoriesWrite,
     threw |-> threw, rejected |-> rejected]

fetchAndDisplayRandomCocktailAwait(o) ==
    LET r == fetchCocktailData(o) IN
    IF r.threw
    THEN Effect(<<displayError(<<"Error al cargar cóctel aleatorio: ">> \o r.message)>>,
                <<>>, TRUE, FALSE)
    ELSE Effect(<<displayCocktail(r.value)>>, <<>>, FALSE, FALSE)

\* writes nothing when the search finds no cocktail
searchAndDisplayCocktailAwaitSilent(o) ==
    LET r == fetchCocktailData(o) IN
    IF r.threw
    THEN Effect(<<displayError(<<"Error al buscar cóctel: ">> \o r.message)>>,
                <<>>, TRUE, FALSE)
    ELSE IF r.value = <<>> THEN Effect(<<>>, <<>>, FALSE, FALSE)
    ELSE Effect(<<displayCocktail(r.value)>>, <<>>, FALSE, FALSE)

searchAndDisplayCocktailAwait(o) ==
    LET r == fetchCocktailData(o) IN
    IF r.threw
    THEN Effect(<<displayError(<<"Error al buscar cóctel: ">> \o r.message)>>,
                <<>>, TRUE, FALSE)
    ELSE Effect(<<displayCocktail(r.value)>>, <<>>, FALSE, FALSE)

fetchAndDisplayCocktailDetailsAwait(o) ==
    LET r == fetchCocktailData(o) IN
    IF r.threw
    THEN Effect(<<displayError(<<"Error al cargar detalles del cóctel: ">> \o r.message)>>,
                <<>>, TRUE, FALSE)
    ELSE Effect(<<displayCocktail(r.value)>>, <<>>, FALSE, FALSE)

NoCocktailsMarkup(category) ==
    Paragraph("error-text",
              <<"No se encontraron cócteles en la categoría \"">> \o category \o <<"\".">>)

\* reports an empty category in the categories region
fetchAndDisplayCocktailsByCategoryAwaitWrongRegion(category, o) ==
    LET error == awaitResponse(o) IN
    IF error # <<>>
    THEN Effect(<<displayError(<<"Error al cargar cócteles de la categoría \"">>
                               \o category \o <<"\": ">> \o error[1])>>,
                <<>>, TRUE, FALSE)
    ELSE IF o.drinks.null
    THEN Effect(<<>>, <<NoCocktailsMarkup(category)>>, FALSE, FALSE)
    ELSE Effect(<<Markup("grid", "cocktail-item", <<>>, <<>>,
                         addClickListeners(cocktailItems(o.drinks.items)))>>,
                <<>>, FALSE, FALSE)

fetchAndDisplayCocktailsByCategoryAwait(category, o) ==
    LET error == awaitResponse(o) IN
    IF error # <<>>
    THEN Effect(<<displayError(<<"Error al cargar cócteles de la categoría \"">>
                               \o category \o <<"\": ">> \o error[1])>>,
                <<>>, TRUE, FALSE)
    ELSE IF o.drinks.null
    THEN Effect(<<NoCocktailsMarkup(category)>>, <<>>, FALSE, FALSE)
    ELSE Effect(<<Markup("grid", "cocktail-item", <<>>, <<>>,
                         addClickListeners(cocktailItems(o.drinks.items)))>>,
                <<>>, FALSE, FALSE)

\* initializeCategories has no try block: were the await to throw,
\* displayCategories would not run and the promise would reject
initializeCategoriesAwait(o) ==
    LET r == fetchCocktailCategories(o) IN
    IF r.threw THEN Effect(r.display, <<>>, TRUE, TRUE)
    ELSE Effect(r.display, <<displayCategories(r.value)>>, FALSE, FALSE)

Await(f, o) ==
    CASE f.flow = "random"   -> fetchAndDisplayRandomCocktailAwait(o)
      [] f.flow = "search"   -> searchAndDisplayCocktailAwait(o)
      [] f.flow = "details"  -> fetchAndDisplayCocktailDetailsAwait(o)
      [] f.flow = "category" -> fetchAndDisplayCocktailsByCategoryAwait(f.arg, o)
      [] f.flow = "init"     -> initializeCategoriesAwait(o)

----------------------------------------------------------------------------
(* State machine *)

Label(op, id, k, outcome, threw) ==
    [op |-> op, id |-> id, k |-> k, outcome |-> outcome, threw |-> threw]

Flow(flow, arg, url) == [flow |-> flow, arg |-> arg, url |-> url, pc |-> "fetch"]

CategoriesUrl == cocktailApiBaseUrl \o <<"list.php?c=list">>

\* the state once the DOMContentLoaded listener has returned: the listeners of
\* the search field and the two buttons are attached and initializeCategories
\* is suspended in its fetch
Init ==
    /\ searchInput = <<>>
    /\ detail = InitialMarkup
    /\ categories = InitialMarkup
    /\ flows = <<Flow("init", <<>>, CategoriesUrl)>>
    /\ requests = <<CategoriesUrl>>
    /\ unhandled = {}
    /\ step = Label("DOMContentLoaded", 1, 0, NoOutcome, FALSE)
    /\ call = <<>>

CanStart == Len(flows) < 1 + MaxFlows

\* issues the request without showing the loading state
StartWithoutLoading(flow, arg, url, loading, op, k) ==
    /\ CanStart
    /\ flows' = Append(flows, Flow(flow, arg, url))
    /\ requests' = Append(requests, url)
    /\ step' = Label(op, Len(flows) + 1, k, NoOutcome, FALSE)
    /\ UNCHANGED <<searchInput, detail, categories, unhandled, call>>

\* a flow calls fetch(url) and suspends
Start(flow, arg, url, loading, op, k) ==
    /\ CanStart
    /\ detail' = loading
    /\ flows' = Append(flows, Flow(flow, arg, url))
    /\ requests' = Append(requests, url)
    /\ step' = Label(op, Len(flows) + 1, k, NoOutcome, FALSE)
    /\ UNCHANGED <<searchInput, categories, unhandled, call>>

\* what the user may have in the search field
SearchTexts == {<<>>, <<" ", "\t">>, <<"Margarita">>, <<" ", "Mojito", " ">>}

\* the user edits the search field; the keypress listener ignores every key
\* but Enter
EditSearchInput(text) ==
    /\ text # searchInput
    /\ searchInput' = text
    /\ step' = Label("keypress", 0, 0, NoOutcome, FALSE)
    /\ UNCHANGED <<detail, categories, flows, requests, unhandled, call>>

ValidationMarkup ==
    displayError(<<"Por favor, introduce un nombre de cóctel para buscar.">>)

searchAndDisplayCocktail(trigger) ==
    LET searchTerm == trim(searchInput) IN
    IF searchTerm = <<>>
    THEN /\ detail' = ValidationMarkup
         /\ step' = Label(trigger, 0, 0, NoOutcome, FALSE)
         /\ UNCHANGED <<searchInput, categories, flows, requests, unhandled, call>>
    ELSE Start("search", searchTerm,
               cocktailApiBaseUrl \o <<"search.php?s=">> \o encodeURIComponent(searchTerm),
               displayLoading(<<"Buscando \"">> \o searchTerm \o <<"\"...">>),
               trigger, 0)

SearchButtonClick == searchAndDisplayCocktail("searchClick")

SearchEnterKey == searchAndDisplayCocktail("searchEnter")

fetchAndDisplayRandomCocktail ==
    Start("random", <<>>, cocktailApiBaseUrl \o <<"random.php">>,
          displayLoading(<<"Buscando un cóctel aleatorio...">>), "randomClick", 0)

\* interpolates the category into the URL as it is
fetchAndDisplayCocktailsByCategoryRaw(category, k) ==
    Start("category", category,
          cocktailApiBaseUrl \o <<"filter.php?c=">> \o category,
          displayLoading(<<"Cargando cócteles de la categoría \"">> \o category \o <<"\"...">>),
          "categoryClick", k)

fetchAndDisplayCocktailsByCategory(category, k) ==
    Start("category", category,
          cocktailApiBaseUrl \o <<"filter.php?c=">> \o encodeURIComponent(category),
          displayLoading(<<"Cargando cócteles de la categoría \"">> \o category \o <<"\"...">>),
          "categoryClick", k)

\* click on the k-th category card: the listener attached by displayCategories.
\* It empties the detail region and calls fetchAndDisplayCocktailsByCategory,
\* which writes the loading state before the handler returns.
CategoryCardClick(k) ==
    /\ categories.node = "cards"
    /\ k \in DOMAIN categories.cards
    /\ categories.cards[k].listeners = 1
    /\ fetchAndDisplayCocktailsByCategory(categories.cards[k].tag, k)

fetchAndDisplayCocktailDetails(drinkId, k) ==
    Start("details", drinkId,
          cocktailApiBaseUrl \o <<"lookup.php?i=">> \o encodeURIComponent(drinkId),
          displayLoading(<<"Cargando detalles del cóctel...">>), "itemClick", k)

\* click on the k-th card of the grid: the listener attached after the grid
\* was written
CocktailItemClick(k) ==
    /\ detail.node = "grid"
    /\ k \in DOMAIN detail.cards
    /\ detail.cards[k].listeners = 1
    /\ fetchAndDisplayCocktailDetails(detail.cards[k].tag, k)

regionAfterUnlessReplaced(current, write) ==
    IF write = <<>> \/ current.class # "loading-text" THEN current ELSE write[1]

\* region.innerHTML = markup replaces whatever the region holds; a continuation
\* that does not write the region leaves it alone
regionAfter(current, write) == IF write = <<>> THEN current ELSE write[1]

\* reissues the request of a flow that failed
CompleteRetrying(id, o) ==
    LET e == Await(flows[id], o) IN
    /\ detail' = regionAfter(detail, e.detail)
    /\ categories' = regionAfter(categories, e.categories)
    /\ unhandled' = IF e.rejected THEN unhandled \cup {id} ELSE unhandled
    /\ flows' = [flows EXCEPT ![id].pc = IF IsFailure(o) THEN "fetch" ELSE "done"]
    /\ requests' = IF IsFailure(o) THEN Append(requests, flows[id].url) ELSE requests
    /\ step' = Label("settled", id, 0, o, e.threw)
    /\ UNCHANGED <<searchInput, call>>

\* the continuation of flow id runs to its end
Complete(id, o) ==
    LET e == Await(flows[id], o) IN
    /\ detail' = regionAfter(detail, e.detail)
    /\ categories' = regionAfter(categories, e.categories)
    /\ unhandled' = IF e.rejected THEN unhandled \cup {id} ELSE unhandled
    /\ flows' = [flows EXCEPT ![id].pc = "done"]
    /\ step' = Label("settled", id, 0, o, e.threw)
    /\ UNCHANGED <<searchInput, requests, call>>

\* gives up on a pending request after a delay and reports it
FetchSettlesWithTimeout(id) ==
    /\ id \in DOMAIN flows
    /\ flows[id].pc = "fetch"
    /\ \/ \E o \in FetchFailures : Complete(id, o)
       \/ /\ flows' = [flows EXCEPT ![id].pc = "json"]
          /\ step' = Label("response", id, 0, NoOutcome, FALSE)
          /\ UNCHANGED <<searchInput, detail, categories, requests, unhandled, call>>
       \/ /\ detail' = displayError(<<"timeout">>)
          /\ step' = Label("timeout", id, 0, NoOutcome, FALSE)
          /\ UNCHANGED <<searchInput, categories, flows, requests, unhandled, call>>

\* the promise of fetch(url) settles
FetchSettles(id) ==
    /\ id \in DOMAIN flows
    /\ flows[id].pc = "fetch"
    /\ \/ \E o \in FetchFailures : Complete(id, o)
       \/ /\ flows' = [flows EXCEPT ![id].pc = "json"]
          /\ step' = Label("response", id, 0, NoOutcome, FALSE)
          /\ UNCHANGED <<searchInput, detail, categories, requests, unhandled, call>>

\* the promise of response.json() settles
JsonSettles(id) ==
    /\ id \in DOMAIN flows
    /\ flows[id].pc = "json"
    /\ \E o \in Bodies(flows[id].flow) : Complete(id, o)

FlowIds == 1..(1 + MaxFlows)

CardIndexes == 1..3

Next ==
    \/ \E text \in SearchTexts : EditSearchInput(text)
    \/ SearchButtonClick
    \/ SearchEnterKey
    \/ fetchAndDisplayRandomCocktail
    \/ \E k \in CardIndexes : CategoryCardClick(k)
    \/ \E k \in CardIndexes : CocktailItemClick(k)
    \/ \E id \in FlowIds : FetchSettles(id)
    \/ \E id \in FlowIds : JsonSettles(id)

Spec == Init /\ [][Next]_vars

\* a pending request settles
Settles == \E id \in FlowIds : FetchSettles(id) \/ JsonSettles(id)

\* the program when the network answers every request: a promise that can
\* settle eventually does
SpecFair == Init /\ [][Next]_vars /\ WF_vars(Settles)

----------------------------------------------------------------------------
(* Direct renderer calls: displayCocktail applied to every record of a       *)
(* family, over every kind of content the detail region can hold.            *)

IngredientName(i) ==
    IF i % 2 = 0 THEN <<" ", "ingredient", ToString(i), "\t">>
    ELSE <<"ingredient", ToString(i)>>

MeasureName(i) ==
    CASE i % 3 = 0 -> Null
      [] i % 3 = 1 -> <<"1", " ", "oz", " ">>
      [] OTHER     -> <<>>

\* a record with MaxSlots ingredient fields, missing at positions g1 and g2
SparseCocktail(g1, g2, missing) ==
    Cocktail(<<"178">>, <<"Punch">>, Null,
             [i \in 1..MaxSlots |->
                 IF i = g1 THEN missing ELSE IF i = g2 THEN Null ELSE IngredientName(i)],
             [i \in 1..MaxSlots |-> MeasureName(i)])

SparseCocktails ==
    {SparseCocktail(g1, g2, missing) :
        g1 \in 1..(MaxSlots + 1), g2 \in 1..(MaxSlots + 1), missing \in {Null, <<>>}}

RenderInputs == {<<>>, <<Margarita>>, <<Mojito>>} \cup {<<d>> : d \in SparseCocktails}

PriorContents ==
    {InitialMarkup,
     displayLoading(<<"Buscando un cóctel aleatorio...">>),
     displayCocktail(<<Margarita>>),
     Markup("grid", "cocktail-item", <<>>, <<>>, addClickListeners(cocktailItems(<<Shot>>))),
     NotFoundMarkup,
     NoCocktailsMarkup(<<"Shot">>),
     ValidationMarkup,
     displayError(<<"Error al cargar cóctel aleatorio: ">> \o FetchRejectMessage)}

PendingCall(drink, prior) == [drink |-> drink, prior |-> prior, returned |-> FALSE]

InitRender ==
    /\ searchInput = <<>>
    /\ detail \in PriorContents
    /\ categories = InitialMarkup
    /\ flows = <<>>
    /\ requests = <<>>
    /\ unhandled = {}
    /\ step = Label("none", 0, 0, NoOutcome, FALSE)
    /\ call \in {<<PendingCall(drink, detail)>> : drink \in RenderInputs}

RenderCall ==
    /\ call # <<>>
    /\ ~call[1].returned
    /\ detail' = displayCocktail(call[1].drink)
    /\ call' = <<[call[1] EXCEPT !.returned = TRUE]>>
    /\ step' = Label("displayCocktail", 0, 0, NoOutcome, FALSE)
    /\ UNCHANGED <<searchInput, categories, flows, requests, unhandled>>

NextRender == RenderCall

SpecRender == InitRender /\ [][NextRender]_vars

----------------------------------------------------------------------------
(* Properties *)

IsBlank(s) == \A i \in 1..Len(s) : s[i] \in Whitespace

SearchTriggers == {"searchClick", "searchEnter"}

\* C1: a search triggered while the search field is empty or holds only
\* whitespace issues no request and starts no flow, and the same step puts the
\* detail region in the "please enter a name" validation error state.
C1_BlankSearchIssuesNoRequest ==
    [][(step'.op \in SearchTriggers /\ IsBlank(searchInput))
        => /\ requests' = requests
           /\ flows' = flows
           /\ detail'.class = "error-text"
           /\ detail'.text = <<"Por favor, introduce un nombre de cóctel para buscar.">>]_vars

C1_Witness ==
    /\ step.op = "searchClick"
    /\ searchInput = <<" ", "\t">>
    /\ detail = ValidationMarkup
    /\ \E id \in DOMAIN flows : flows[id].flow = "search" /\ flows[id].pc = "fetch"
    /\ Len(requests) = Len(flows)

\* what the search flow shows for the answer o to its request
ShowsSearchResult(region, o) ==
    CASE IsFailure(o) ->
            /\ region.class = "error-text"
            /\ SubSeq(region.text, 1, 1) = <<"Error al buscar cóctel: ">>
      [] o.drinks.null \/ o.drinks.items = <<>> ->
            region = NotFoundMarkup
      [] OTHER ->
            /\ region.node = "detail"
            /\ SubSeq(region.text, 1, 1) = o.drinks.items[1].strDrink

\* C2: when search a was started before search b and b's request has already
\* resolved at the moment a's resolves, the detail region shows a's result:
\* the flow that resolves last writes the region, and both flows ran to their end.
C2_LastResolvedWins ==
    \A a \in DOMAIN flows : \A b \in DOMAIN flows :
        (/\ a < b
         /\ flows[a].flow = "search"
         /\ flows[b].flow = "search"
         /\ flows[b].pc = "done"
         /\ step.op = "settled"
         /\ step.id = a)
        => /\ ShowsSearchResult(detail, step.outcome)
           /\ flows[a].pc = "done"
           /\ flows[a].url \in {requests[i] : i \in DOMAIN requests}
           /\ flows[b].url \in {requests[i] : i \in DOMAIN requests}

C2_Witness ==
    /\ Len(flows) = 3
    /\ flows[2].flow = "search" /\ flows[2].arg = <<"Margarita">>
    /\ flows[3].flow = "search" /\ flows[3].arg = <<"Mojito">>
    /\ flows[3].pc = "done"
    /\ step.op = "settled" /\ step.id = 2
    /\ step.outcome = Ok(Array(<<Margarita>>))
    /\ detail = displayCocktail(<<Margarita>>)

UserFlows == {"search", "random", "category", "details"}

\* the message of the error a failed request raises
FailureMessage(o) ==
    CASE o.kind = "network" -> <<"Failed to fetch">>
      [] o.kind = "http"    -> <<"HTTP error! Status: ", o.status>>
      [] o.kind = "parse"   -> <<"Unexpected token in JSON">>

ErrorPrefix(f) ==
    CASE f.flow = "search"   -> <<"Error al buscar cóctel: ">>
      [] f.flow = "random"   -> <<"Error al cargar cóctel aleatorio: ">>
      [] f.flow = "details"  -> <<"Error al cargar detalles del cóctel: ">>
      [] f.flow = "category" ->
            <<"Error al cargar cócteles de la categoría \"">> \o f.arg \o <<"\": ">>
      [] f.flow = "init"     -> <<"Error al cargar las categorías: ">>

\* the flow whose continuation ran in the last step
Settled == flows[step.id]

\* C3: in the search, random, category-browse and detail-view flows a failed
\* request (no response, non-success status, unparsable body) ends in an error
\* state in the detail region that carries the failure's message, and no such
\* flow ever rejects unhandled.
C3_FailuresTrappedInFlow ==
    /\ \A id \in DOMAIN flows : flows[id].flow \in UserFlows => id \notin unhandled
    /\ (step.op = "settled" /\ Settled.flow \in UserFlows /\ IsFailure(step.outcome))
        => /\ Settled.pc = "done"
           /\ detail.node = "p"
           /\ detail.class = "error-text"
           /\ detail.text = ErrorPrefix(Settled) \o FailureMessage(step.outcome)

C3_Witness ==
    /\ step.op = "settled"
    /\ Settled.flow = "category"
    /\ step.outcome = HttpFailure("500")
    /\ detail.class = "error-text"
    /\ detail.text = <<"Error al cargar cócteles de la categoría \"", "Shot", "\": ",
                       "HTTP error! Status: ", "500">>
    /\ unhandled = {}

ZeroMatches(o) == o.kind = "ok" /\ (o.drinks.null \/ o.drinks.items = <<>>)

\* the region a flow reports its result in
ResultRegion(f) == IF f.flow = "init" THEN categories ELSE detail

\* the "not found" state of that region
NotFoundState(f) ==
    CASE f.flow = "init"     -> NoCategoriesMarkup
      [] f.flow = "category" -> NoCocktailsMarkup(f.arg)
      [] OTHER               -> NotFoundMarkup

\* C4: for every operation, the category listing included, a well-formed
\* response with zero matches is not raised as an error and is rendered as the
\* "not found" state of the flow's region, and that region never shows this
\* state after a failed request.
C4_NotFoundDistinctFromFailure ==
    step.op = "settled"
    => /\ ZeroMatches(step.outcome)
            => ~step.threw /\ ResultRegion(Settled) = NotFoundState(Settled)
       /\ IsFailure(step.outcome)
            => ResultRegion(Settled) # NotFoundState(Settled)

\* C5: for the single-cocktail, category-list and cocktails-by-category
\* operations, a parsed response whose collection is null or empty ends in the
\* not-found state, never in a detail view or a grid.
C5_NullOrEmptyIsAbsent ==
    (step.op = "settled" /\ ZeroMatches(step.outcome))
    => /\ ResultRegion(Settled).node \notin {"detail", "grid", "cards"}
       /\ ResultRegion(Settled) = NotFoundState(Settled)

ListingFailed(label) ==
    label.op = "settled" /\ label.id = 1 /\ IsFailure(label.outcome)

LastRequest(log) == log[Len(log)]

\* C7: a grid rendered from a filter response with n >= 1 summaries has n
\* cards, the k-th tagged with the k-th summary's identifier and bound to one
\* click listener; a click on the k-th card starts exactly one detail-view
\* flow, whose one request looks up the k-th card's identifier.
C7_CardClickLooksUpItsOwnId ==
    /\ [](detail.node = "grid"
            => \A k \in DOMAIN detail.cards : detail.cards[k].listeners = 1)
    /\ []((/\ step.op = "settled"
           /\ Settled.flow = "category"
           /\ step.outcome.kind = "ok"
           /\ Len(step.outcome.drinks.items) >= 1)
            => /\ detail.node = "grid"
               /\ Len(detail.cards) = Len(step.outcome.drinks.items)
               /\ \A k \in DOMAIN detail.cards :
                     detail.cards[k].tag = step.outcome.drinks.items[k].idDrink)
    /\ [][step'.op = "itemClick"
            => /\ detail.node = "grid"
               /\ step'.k \in DOMAIN detail.cards
               /\ Len(flows') = Len(flows) + 1
               /\ flows'[Len(flows')].flow = "details"
               /\ Len(requests') = Len(requests) + 1
               /\ LastRequest(requests')
                    = <<"https://www.thecocktaildb.com/api/json/v1/1/", "lookup.php?i=">>
                      \o detail.cards[step'.k].tag]_vars

C7_Witness ==
    /\ step.op = "itemClick"
    /\ step.k = 2
    /\ Len(flows) = 3
    /\ flows[2].flow = "category" /\ flows[2].pc = "done"
    /\ flows[3].flow = "details" /\ flows[3].pc = "fetch"
    /\ Len(requests) = 3
    /\ LastRequest(requests)
         = <<"https://www.thecocktaildb.com/api/json/v1/1/", "lookup.php?i=", "11000">>

\* the first position in 1..15 whose ingredient is null or empty, 16 if none
FirstGap(d) ==
    LET missing == {i \in 1..15 : ingredientAt(d, i) \in {Null, <<>>}} IN
    IF missing = {} THEN 16
    ELSE CHOOSE i \in missing : \A j \in missing : i <= j

Rendered == call # <<>> /\ call[1].returned

\* C8: the ingredient list rendered for a record has exactly one entry for
\* each position 1..j-1, in order, where j is the first position in 1..15
\* whose ingredient is missing or empty (16 if none): nothing after the first
\* gap is rendered.
C8_IngredientsStopAtFirstGap ==
    (Rendered /\ call[1].drink # <<>>)
    => LET d == call[1].drink[1] IN
       /\ Len(detail.list) = FirstGap(d) - 1
       /\ \A i \in 1..(FirstGap(d) - 1) :
             detail.list[i] = listItem(measureAt(d, i), ingredientAt(d, i))

C8_Witness ==
    /\ Rendered
    /\ call[1].drink # <<>>
    /\ LET d == call[1].drink[1] IN
       /\ Truthy(ingredientAt(d, 1)) /\ Truthy(ingredientAt(d, 2))
       /\ Falsy(ingredientAt(d, 3)) /\ Truthy(ingredientAt(d, 4))
    /\ detail.list = << <<"1", " ", "oz", " ", "ingredient", "1">>, <<"ingredient", "2">> >>

Unescape(hi, lo) ==
    CASE <<hi, lo>> = <<"2", "0">> -> " "
      [] <<hi, lo>> = <<"0", "9">> -> "\t"
      [] <<hi, lo>> = <<"2", "F">> -> "/"
      [] <<hi, lo>> = <<"2", "5">> -> "%"
      [] <<hi, lo>> = <<"3", "F">> -> "?"
      [] <<hi, lo>> = <<"2", "6">> -> "&"
      [] <<hi, lo>> = <<"3", "D">> -> "="
      [] OTHER -> "\\invalid"

\* what the server reads back from a query value
RECURSIVE decodeURIComponent(_)
decodeURIComponent(q) ==
    IF q = <<>> THEN <<>>
    ELSE IF Head(q) = "%"
    THEN IF Len(q) >= 3
         THEN <<Unescape(q[2], q[3])>> \o decodeURIComponent(SubSeq(q, 4, Len(q)))
         ELSE <<"\\invalid">>
    ELSE <<Head(q)>> \o decodeURIComponent(Tail(q))

ReservedChars == {" ", "\t", "/", "?", "&", "="}

\* C9: a click on the category card tagged c issues one request whose URL is
\* the base endpoint, "filter.php?c=" and c percent-encoded exactly once: the
\* query value holds no raw reserved character and decodes, in one decoding,
\* to c.
C9_CategoryEncodedOnce ==
    [][step'.op = "categoryClick"
        => LET c == categories.cards[step'.k].tag
               url == LastRequest(requests')
               query == SubSeq(url, 3, Len(url))
           IN /\ Len(requests') = Len(requests) + 1
              /\ SubSeq(url, 1, 2)
                   = <<"https://www.thecocktaildb.com/api/json/v1/1/", "filter.php?c=">>
              /\ \A i \in DOMAIN query : query[i] \notin ReservedChars
              /\ decodeURIComponent(query) = c]_vars

C9_Witness ==
    /\ step.op = "categoryClick"
    /\ flows[Len(flows)].arg = <<"Coffee", " ", "/", " ", "Tea">>
    /\ LastRequest(requests)
         = <<"https://www.thecocktaildb.com/api/json/v1/1/", "filter.php?c=",
             "Coffee", "%", "2", "0", "%", "2", "F", "%", "2", "0", "Tea">>

\* C10: displayCocktail called with the absent value returns and leaves the
\* detail region holding the not-found message, whatever the region held
\* before.
C10_AbsentRendersNotFound ==
    /\ (call # <<>> /\ ~call[1].returned /\ call[1].drink = <<>>) => ENABLED RenderCall
    /\ (Rendered /\ call[1].drink = <<>>)
        => /\ detail.node = "p"
           /\ detail.class = "error-text"
           /\ detail.text = <<"No se encontró ningún cóctel con ese nombre.">>
           /\ detail.list = <<>>
           /\ detail.cards = <<>>

C10_Witness ==
    /\ Rendered
    /\ call[1].drink = <<>>
    /\ call[1].prior.node = "grid"
    /\ detail = NotFoundMarkup

ListingSettled == step.op = "settled" /\ step.id = 1 /\ step.outcome.kind = "ok"

\* C11: the category cards rendered from an empty list and from the absent
\* value are the same: in both cases the categories region holds the one
\* "none found" paragraph and no card.
C11_EmptyAndAbsentCategoriesAlike ==
    (ListingSettled /\ (step.outcome.drinks.null \/ step.outcome.drinks.items = <<>>))
    => /\ categories.node = "p"
       /\ categories.class = "error-text"
       /\ categories.text = <<"No se encontraron categorías.">>
       /\ categories.cards = <<>>

C11_Witness ==
    /\ ListingSettled
    /\ ~step.outcome.drinks.null
    /\ step.outcome.drinks.items = <<>>
    /\ categories = displayCategories(NullArray)

SingleFlows == {"search", "random", "details"}

\* C12: when the response of a search, random or lookup request holds more
\* than one entry, the detail region shows the first entry as returned and
\* nothing of the others.
C12_FirstEntryShown ==
    (/\ step.op = "settled"
     /\ Settled.flow \in SingleFlows
     /\ step.outcome.kind = "ok"
     /\ Len(step.outcome.drinks.items) > 1)
    => LET first == step.outcome.drinks.items[1] IN
       /\ detail.node = "detail"
       /\ SubSeq(detail.text, 1, Len(first.strDrink)) = first.strDrink
       /\ detail = displayCocktail(<<first>>)
       /\ \A i \in 2..Len(step.outcome.drinks.items) :
             detail # displayCocktail(<<step.outcome.drinks.items[i]>>)

C12_Witness ==
    /\ step.op = "settled"
    /\ Settled.flow = "search"
    /\ step.outcome = Ok(Array(<<Mojito, Margarita>>))
    /\ SubSeq(detail.text, 1, 1) = <<"Mojito">>
    /\ Len(detail.list) = 2

StartOps == {"searchClick", "searchEnter", "randomClick", "categoryClick", "itemClick"}

IsLoading(region) == region.node = "p" /\ region.class = "loading-text"

\* C13: each user-triggered flow goes loading -> request -> final state.  The
\* step that issues a request is a user trigger that puts the detail region in
\* the loading state and resolves nothing; a user flow ends only in the step
\* in which its own pending request resolves, and that step writes its final
\* (non-loading) state; no other step but a rejected blank search writes a
\* non-loading state.
C13_LoadingThenRequestThenFinal ==
    [][/\ requests' # requests
            => /\ step'.op \in StartOps
               /\ Len(requests') = Len(requests) + 1
               /\ Len(flows') = Len(flows) + 1
               /\ step'.id = Len(flows')
               /\ flows'[Len(flows')].pc = "fetch"
               /\ flows'[Len(flows')].url = LastRequest(requests')
               /\ \A id \in DOMAIN flows : flows'[id] = flows[id]
               /\ IsLoading(detail')
       /\ \A id \in DOMAIN flows :
            (flows[id].flow \in UserFlows /\ flows[id].pc # "done" /\ flows'[id].pc = "done")
            => /\ step'.op = "settled"
               /\ step'.id = id
               /\ ~IsLoading(detail')
               /\ detail'.node \in {"p", "detail", "grid"}
       /\ (detail' # detail /\ ~IsLoading(detail'))
            => \/ step'.op \in SearchTriggers /\ IsBlank(searchInput)
               \/ /\ step'.op = "settled"
                  /\ flows[step'.id].pc \in {"fetch", "json"}
                  /\ flows'[step'.id].pc = "done"]_vars

C13_Witness ==
    /\ step.op = "settled"
    /\ Settled.flow = "details"
    /\ Settled.pc = "done"
    /\ step.outcome = Ok(Array(<<Margarita>>))
    /\ detail = displayCocktail(<<Margarita>>)

\* C14: a click on the category card tagged c replaces the content of the
\* detail region by the loading state in that step and issues exactly one
\* request, the filter request for c; when that request resolves with n >= 1
\* summaries, the step leaves the detail region holding a grid of exactly n
\* cards, the k-th tagged with the k-th summary's identifier.
C14_CategoryClickRendersGrid ==
    [][/\ step'.op = "categoryClick"
            => LET c == categories.cards[step'.k].tag
                   url == LastRequest(requests')
               IN /\ IsLoading(detail')
                  /\ detail'.list = <<>>
                  /\ detail'.cards = <<>>
                  /\ detail'.text = <<"Cargando cócteles de la categoría \"">> \o c \o <<"\"...">>
                  /\ Len(requests') = Len(requests) + 1
                  /\ Len(flows') = Len(flows) + 1
                  /\ flows'[Len(flows')].flow = "category"
                  /\ flows'[Len(flows')].arg = c
                  /\ SubSeq(url, 1, 2)
                       = <<"https://www.thecocktaildb.com/api/json/v1/1/", "filter.php?c=">>
                  /\ decodeURIComponent(SubSeq(url, 3, Len(url))) = c
       /\ (/\ step'.op = "settled"
           /\ flows[step'.id].flow = "category"
           /\ step'.outcome.kind = "ok"
           /\ Len(step'.outcome.drinks.items) >= 1)
            => LET items == step'.outcome.drinks.items IN
               /\ requests' = requests
               /\ detail'.node = "grid"
               /\ Len(detail'.cards) = Len(items)
               /\ \A k \in 1..Len(items) :
                     /\ detail'.cards[k].tag = items[k].idDrink
                     /\ detail'.cards[k].label = items[k].strDrink]_vars

C14_Witness ==
    /\ step.op = "settled"
    /\ Settled.flow = "category"
    /\ Settled.arg = <<"Coffee", " ", "/", " ", "Tea">>
    /\ Len(step.outcome.drinks.items) = 3
    /\ detail.node = "grid"
    /\ Len(detail.cards) = 3
    /\ detail.cards[1].tag = <<"11007">>
    /\ detail.cards[2].tag = <<"11000">>
    /\ detail.cards[3].tag = <<"17222">>

\* C15: nothing but a user trigger or the resolution of a pending request
\* takes the detail region out of the loading state: while no request
\* resolves and the user triggers nothing, the region keeps its loading
\* content, however many other steps are taken.
C15_LoadingStaysUntilWritten ==
    [][(IsLoading(detail) /\ detail' # detail)
        => \/ step'.op \in StartOps \cup SearchTriggers
           \/ /\ step'.op = "settled"
              /\ flows[step'.id].pc \in {"fetch", "json"}
              /\ flows'[step'.id].pc = "done"]_vars

C15_Witness ==
    /\ step.op = "keypress"
    /\ IsLoading(detail)
    /\ detail.text = <<"Buscando un cóctel aleatorio...">>
    /\ Len(flows) = 2
    /\ flows[2].flow = "random" /\ flows[2].pc = "fetch"
    /\ flows[1].pc = "done"

\* a user trigger that passes validation: any trigger but a search on a blank field
PassesValidation(label, field) ==
    /\ label.op \in StartOps
    /\ label.op \in SearchTriggers => ~IsBlank(field)

\* C16: the bootstrap issues one request and every user trigger that passes
\* validation issues exactly one; no other step issues a request, whether a
\* request failed or found nothing.  The request log therefore always holds
\* one URL per flow started, the flow's own.
C16_OneRequestPerFlow ==
    /\ [](/\ Len(requests) = Len(flows)
          /\ \A id \in DOMAIN flows : requests[id] = flows[id].url)
    /\ [][IF PassesValidation(step', searchInput)
          THEN Len(requests') = Len(requests) + 1
               /\ SubSeq(requests', 1, Len(requests)) = requests
          ELSE requests' = requests]_vars

C16_Witness ==
    /\ step.op = "settled"
    /\ IsFailure(step.outcome)
    /\ Len(flows) = 3
    /\ \A id \in DOMAIN flows : flows[id].pc = "done"
    /\ flows[2].flow = "search" /\ flows[3].flow = "search"
    /\ detail.class = "error-text"
    /\ Len(requests) = 3
    /\ requests[2] = requests[3]

UserRequestInFlight ==
    \E id \in DOMAIN flows : flows[id].flow \in UserFlows /\ flows[id].pc # "done"

\* C17: whenever the detail region shows the loading state, the request of at
\* least one user-triggered flow is still in flight; hence, when every request
\* is eventually answered, the region eventually leaves the loading state for
\* good.
C17_LoadingImpliesRequestInFlight ==
    /\ [](IsLoading(detail) => UserRequestInFlight)
    /\ <>[](~IsLoading(detail))

C17_Witness ==
    /\ Len(flows) = 3
    /\ flows[2].flow = "search" /\ flows[2].pc = "done"
    /\ flows[3].flow = "random" /\ flows[3].pc = "json"
    /\ step.op = "response"
    /\ IsLoading(detail)
    /\ detail.text = <<"Buscando un cóctel aleatorio...">>

\* C18: the categories region is written by the bootstrap listing flow only,
\* in the one step in which that flow's request resolves; the starts, the
\* successes and the failures of the search, random, category-browse and
\* detail-view flows leave it as it is.
C18_CategoriesWrittenByBootstrapOnly ==
    /\ [](flows[1].flow = "init")
    /\ [](categories = InitialMarkup <=> flows[1].pc # "done")
    /\ [][categories' # categories
            => /\ step'.op = "settled"
               /\ step'.id = 1
               /\ flows[1].pc # "done"
               /\ flows'[1].pc = "done"]_vars

C18_Witness ==
    /\ step.op = "settled"
    /\ step.id = 3
    /\ flows[2].flow = "category"
    /\ flows[3].flow = "details"
    /\ IsFailure(step.outcome)
    /\ categories = displayCategories(Array(<<Category(<<"Shot">>)>>))

====
